---- MODULE Spec2Model ----
(***************************************************************************)
(* Model of the article reconciliation pipeline of scriptgrid-backend:     *)
(* analyzer.py (normalisation, deduplicate_articles, fetch_articles) and   *)
(* api_server.py (handle_script_analysis, analyze_script_endpoint).        *)
(*                                                                         *)
(* Text is a sequence of one-character strings.  The external capabilities *)
(* (language-model calls, search providers) are the environment: every     *)
(* response they can give is an input chosen with \E.                      *)
(***************************************************************************)
EXTENDS Integers, Sequences, FiniteSets, TLC

VARIABLES
    pc,             \* position of the request inside the endpoint / handler
    newsapi_key,    \* analyzer.NEWSAPI_KEY is set (read once from the environment)
    simplified,     \* handler local: flattened query variants
    qi,             \* handler: index of the loop `for query in simplified`
    results,        \* fetch_articles local `results`
    articles,       \* handler local `articles`
    scores,         \* handler local `scores`
    filtered,       \* handler local `filtered`
    positions,      \* handler local `positions`
    all_results,    \* handler local `all_results`
    payload,        \* what the endpoint answers
    fetched,        \* number of raw records the article source has delivered
    score_calls,    \* calls of batch_score_relevance in the current loop iteration
    simplify_calls, \* calls of simplify_queries in the invocation
    align_distinct  \* every Alignment response so far had pairwise distinct indices

vars == <<pc, newsapi_key, simplified, qi, results, articles, scores, filtered,
          positions, all_results, payload, fetched, score_calls, simplify_calls,
          align_distinct>>

(***************************************************************************)
(* Bounds of the exploration.                                              *)
(***************************************************************************)
MaxQueries == 2
MaxArticles == 2
MaxPos == 2

\* The relevance threshold of the handler and of fetch_articles.
Threshold == 80

BSeq(S, n) == UNION {[1..k -> S] : k \in 0..n}

Min(x, y) == IF x <= y THEN x ELSE y

(***************************************************************************)
(* Text helpers.                                                           *)
(***************************************************************************)
WordChars == {"a", "b", "0", "1", "2"}

\* str.lower() on the alphabet of the model
Lower(c) == IF c = "A" THEN "a" ELSE IF c = "B" THEN "b" ELSE c

\* re.sub(r'\W+', '', text.lower().strip()) if text else ''
IsWord(c) == c \in WordChars
norm(text) == SelectSeq([i \in 1..Len(text) |-> Lower(text[i])], IsWord)

\* urlparse / urlunparse keeping scheme, netloc and path: everything from the
\* first '?' or '#' on is dropped, the case of netloc and path is kept.  The
\* urls of the model have no ';params' part and a lower-case scheme, the two
\* other things urlparse would change.
RECURSIVE normalize_url(_)
normalize_url(url) ==
    IF url = <<>> \/ Head(url) \in {"?", "#"} THEN <<>>
    ELSE <<Head(url)>> \o normalize_url(Tail(url))

\* hashlib.sha256(s.encode()).hexdigest(): injective on the texts of the model
\* and never equal to a concatenation of a normalised title with a url or
\* description.
Sha256(s) == <<"sha256:">> \o s

\* article.get("title", ""), article.get("desc", ""), article.get("url", "")
GetField(article, name) == IF name \in DOMAIN article THEN article[name] ELSE <<>>

\* key_variants of one record
KeyVariants(article) ==
    LET title == norm(GetField(article, "title"))
        desc  == norm(GetField(article, "desc"))
        url   == normalize_url(GetField(article, "url"))
    IN  {title \o url, title \o desc, Sha256(title \o desc)}

\* DedupStep with `seen = set(key_variants)` run for every record instead of
\* `seen.add(k)` for the kept ones: only the record before is remembered
DedupStepLastOnly(st, article) ==
    [seen |-> KeyVariants(article),
     unique |-> IF KeyVariants(article) \cap st.seen = {}
                THEN Append(st.unique, article) ELSE st.unique]

\* one iteration of the loop of deduplicate_articles on the pair (seen, unique)
DedupStep(st, article) ==
    IF KeyVariants(article) \cap st.seen = {}
    THEN [seen |-> st.seen \cup KeyVariants(article), unique |-> Append(st.unique, article)]
    ELSE st

RECURSIVE DedupLoop(_, _)
DedupLoop(st, arts) ==
    IF arts = <<>> THEN st ELSE DedupLoop(DedupStep(st, Head(arts)), Tail(arts))

deduplicate_articles(arts) == DedupLoop([seen |-> {}, unique |-> <<>>], arts).unique

(***************************************************************************)
(* The records the article source can deliver (title, desc, url, date as   *)
(* built by fetch_articles from a provider's response).                    *)
(***************************************************************************)
Raw(t, d, u, dt) == [title |-> t, desc |-> d, url |-> u, date |-> dt]

Pool ==
    { Raw(<<"a">>,      <<"b">>, <<"a">>,           <<"1">>),
      Raw(<<"A", " ">>, <<"0">>, <<"a", "?", "b">>, <<"1", "0">>),
      Raw(<<"a">>,      <<"b">>, <<"1">>,           <<"2">>),
      Raw(<<>>,         <<>>,    <<"a">>,           <<>>),
      Raw(<<>>,         <<>>,    <<"b">>,           <<"1">>),
      Raw(<<"b">>,      <<>>,    <<"a">>,           <<"1", "0">>) }

\* what Query Simplification answers for the i-th query: a phrase group (a
\* list of i phrases) for odd i, a bare phrase of i characters for even i
Group(i) == [list |-> i % 2 = 1, parts |-> [k \in 1..i |-> "a"]]

Scores == {Threshold - 1, Threshold}

Labels == {"Fair Use Likely"}

\* " ".join(q) if isinstance(q, list) else str(q)
RECURSIVE Join(_)
Join(parts) ==
    IF Len(parts) <= 1 THEN parts
    ELSE <<Head(parts), " ">> \o Join(Tail(parts))

Flatten(groups) ==
    [i \in 1..Len(groups) |-> IF groups[i].list THEN Join(groups[i].parts)
                                ELSE groups[i].parts]

\* zip(xs, ys) stops at the shorter of the two
ZipLen(xs, ys) == Min(Len(xs), Len(ys))

\* Passes with `>` for `>=`
PassesStrict(score) == score > Threshold

\* the test of the relevance filter
Passes(score) == score >= Threshold

\* fetch_articles: [a for a, s in zip(results, scores) if s >= 80]
RECURSIVE InnerFilter(_, _)
InnerFilter(arts, ss) ==
    IF arts = <<>> \/ ss = <<>> THEN <<>>
    ELSE (IF Passes(Head(ss)) THEN <<Head(arts)>> ELSE <<>>)
         \o InnerFilter(Tail(arts), Tail(ss))

\* handler: art["relevance_score"] = score; art["query"] = query
Tag(art, score, query) == art @@ [relevance_score |-> score, query |-> query]

\* handler: the articles list after the loop over zip(articles, scores); the
\* records that pass are tagged in place
TagLoop(arts, ss, query) ==
    [i \in 1..Len(arts) |->
        IF i <= Len(ss) /\ Passes(ss[i]) THEN Tag(arts[i], ss[i], query) ELSE arts[i]]

\* handler: filtered, the tagged records in the order of the batch
RECURSIVE Filter(_, _, _)
Filter(arts, ss, query) ==
    IF arts = <<>> \/ ss = <<>> THEN <<>>
    ELSE (IF Passes(Head(ss)) THEN <<Tag(Head(arts), Head(ss), query)>> ELSE <<>>)
         \o Filter(Tail(arts), Tail(ss), query)

\* handler: the record appended to all_results for (art, pos); batch is the
\* number of the loop iteration that made it (the record of the code has no
\* such field, it is kept to tell the batches apart)
Merged(art, pos, batch) ==
    [query |-> art.query, title |-> art.title, url |-> art.url,
     description |-> art.desc, date |-> GetField(art, "date"),
     script_position |-> pos, relevance_score |-> art.relevance_score,
     batch |-> batch]

\* Position with every record given the last index of the answer
PositionLast(arts, ps, batch) ==
    [i \in 1..ZipLen(arts, ps) |-> Merged(arts[i], ps[Len(ps)], batch)]

Position(arts, ps, batch) ==
    [i \in 1..ZipLen(arts, ps) |-> Merged(arts[i], ps[i], batch)]

\* order of characters in Python's string comparison (code points)
CharOrd(c) ==
    CASE c = " " -> 32 [] c = "#" -> 35 [] c = "0" -> 48 [] c = "1" -> 49
      [] c = "2" -> 50 [] c = "?" -> 63 [] c = "A" -> 65 [] c = "B" -> 66
      [] c = "a" -> 97 [] c = "b" -> 98 [] OTHER -> 0

\* s < t for strings
RECURSIVE StrLess(_, _)
StrLess(s, t) ==
    IF t = <<>> THEN FALSE
    ELSE IF s = <<>> THEN TRUE
    ELSE IF Head(s) = Head(t) THEN StrLess(Tail(s), Tail(t))
    ELSE CharOrd(Head(s)) < CharOrd(Head(t))

\* key=lambda x: (x["script_position"], x["date"] or "")
SortKey(x) == <<x.script_position, x.date>>

\* k1 < k2 for the key tuples
KeyLess(k1, k2) == k1[1] < k2[1] \/ (k1[1] = k2[1] /\ StrLess(k1[2], k2[2]))

\* InsertSorted placing a record before the records of equal key
RECURSIVE InsertSortedUnstable(_, _)
InsertSortedUnstable(x, s) ==
    IF s = <<>> THEN <<x>>
    ELSE IF ~KeyLess(SortKey(Head(s)), SortKey(x)) THEN <<x>> \o s
    ELSE <<Head(s)>> \o InsertSortedUnstable(x, Tail(s))

\* sorted(): a stable sort, here by insertion behind the last record whose key
\* is not greater
RECURSIVE InsertSorted(_, _)
InsertSorted(x, s) ==
    IF s = <<>> THEN <<x>>
    ELSE IF KeyLess(SortKey(x), SortKey(Head(s))) THEN <<x>> \o s
    ELSE <<Head(s)>> \o InsertSorted(x, Tail(s))

RECURSIVE Sorted(_)
Sorted(s) ==
    IF s = <<>> THEN <<>>
    ELSE InsertSorted(s[Len(s)], Sorted(SubSeq(s, 1, Len(s) - 1)))

\* for art, label in zip(all_results, legal): art["legal_use"] = label
Annotate(arts, legal) ==
    [i \in 1..Len(arts) |->
        IF i <= Len(legal) THEN arts[i] @@ [legal_use |-> legal[i]] ELSE arts[i]]

\* for idx, art in enumerate(sorted_results, start=1): art["result_number"] = idx
Number(s) == [i \in 1..Len(s) |-> s[i] @@ [result_number |-> i]]

\* steps 7 to 9 of the handler: annotate, sort, number
Rank(arts, legal) == Number(Sorted(Annotate(arts, legal)))

(***************************************************************************)
(* The endpoint's answers.                                                 *)
(***************************************************************************)
NoPayload == [status |-> "none", has_results |-> FALSE, results |-> <<>>]

\* jsonify({"error": ...}), 400 or 500
ErrorPayload(code) == [status |-> code, has_results |-> FALSE, results |-> <<>>]

\* jsonify(result) for the dict the handler returns
OkPayload(rs) == [status |-> "ok", has_results |-> TRUE, results |-> rs]

Init ==
    /\ pc = "request"
    /\ newsapi_key \in BOOLEAN
    /\ simplified = <<>>
    /\ qi = 0
    /\ results = <<>>
    /\ articles = <<>>
    /\ scores = <<>>
    /\ filtered = <<>>
    /\ positions = <<>>
    /\ all_results = <<>>
    /\ payload = NoPayload
    /\ fetched = 0
    /\ score_calls = 0
    /\ simplify_calls = 0
    /\ align_distinct = TRUE

\* the except branch of analyze_script_endpoint
Abort ==
    /\ pc' = "error"
    /\ payload' = ErrorPayload("500")

\* analyze_script_endpoint: no script_text
RejectEmpty ==
    /\ pc = "request"
    /\ pc' = "done"
    /\ payload' = ErrorPayload("400")
    /\ UNCHANGED <<newsapi_key, simplified, qi, results, articles, scores, filtered,
                   positions, all_results, fetched, score_calls, simplify_calls,
                   align_distinct>>

\* handler step 2: analyze_script answers with a JSON object
Extract ==
    /\ pc = "request"
    /\ pc' = "simplify"
    /\ UNCHANGED <<newsapi_key, simplified, qi, results, articles, scores, filtered,
                   positions, all_results, payload, fetched, score_calls,
                   simplify_calls, align_distinct>>

\* handler step 2: analyze_script raises on an unparseable answer
ExtractMalformed ==
    /\ pc = "request"
    /\ Abort
    /\ UNCHANGED <<newsapi_key, simplified, qi, results, articles, scores, filtered,
                   positions, all_results, fetched, score_calls, simplify_calls,
                   align_distinct>>

\* handler step 3: simplify_queries(parsed["queries"]) and the flattening
Simplify ==
    /\ pc = "simplify"
    /\ \E n \in 0..MaxQueries : simplified' = Flatten([i \in 1..n |-> Group(i)])
    /\ qi' = 1
    /\ simplify_calls' = simplify_calls + 1
    /\ pc' = "fetch"
    /\ UNCHANGED <<newsapi_key, results, articles, scores, filtered, positions,
                   all_results, payload, fetched, score_calls, align_distinct>>

\* handler step 3: simplify_queries raises
SimplifyMalformed ==
    /\ pc = "simplify"
    /\ simplify_calls' = simplify_calls + 1
    /\ Abort
    /\ UNCHANGED <<newsapi_key, simplified, qi, results, articles, scores, filtered,
                   positions, all_results, fetched, score_calls, align_distinct>>

InLoop == qi >= 1 /\ qi <= Len(simplified)

\* the loop body ends (`continue`, or its last statement): next query variant
NextQuery ==
    /\ qi' = qi + 1
    /\ score_calls' = 0
    /\ pc' = "fetch"

\* Return with `break` for `continue` when nothing came back
ReturnBreak(rs) ==
    /\ articles' = rs
    /\ results' = <<>>
    /\ scores' = <<>>
    /\ filtered' = <<>>
    /\ positions' = <<>>
    /\ IF rs = <<>>
       THEN /\ qi' = Len(simplified) + 1
            /\ score_calls' = 0
            /\ pc' = "fetch"
       ELSE /\ pc' = "score"
            /\ UNCHANGED <<qi, score_calls>>

\* fetch_articles returns rs to the handler (its own local `results` ends with
\* the call): `if not articles: continue`, or on to the handler's scoring.
\* The handler's locals of the iteration before are dead here (each is assigned
\* again before it is read) and are shown empty.
Return(rs) ==
    /\ articles' = rs
    /\ results' = <<>>
    /\ scores' = <<>>
    /\ filtered' = <<>>
    /\ positions' = <<>>
    /\ IF rs = <<>>
       THEN NextQuery
       ELSE /\ pc' = "score"
            /\ UNCHANGED <<qi, score_calls>>

\* fetch_articles after the providers: deduplicate, then score if any is left
Fetched(raw) ==
    /\ fetched' = fetched + Len(raw)
    /\ IF deduplicate_articles(raw) = <<>>
       THEN Return(<<>>)
       ELSE /\ results' = deduplicate_articles(raw)
            /\ pc' = "fa_simplify"
            /\ UNCHANGED <<articles, qi, scores, filtered, positions, score_calls>>

\* fetch_articles: the SerpAPI request raises, into the except branch
FetchSerpFail ==
    /\ pc = "fetch" /\ InLoop
    /\ pc' = "serp_except"
    /\ UNCHANGED <<newsapi_key, simplified, qi, results, articles, scores, filtered,
                   positions, all_results, payload, fetched, score_calls,
                   simplify_calls, align_distinct>>

\* fetch_articles: the except branch of the SerpAPI request prints and returns []
SerpExcept ==
    /\ pc = "serp_except"
    /\ Return(<<>>)
    /\ UNCHANGED <<newsapi_key, simplified, all_results, payload, fetched,
                   simplify_calls, align_distinct>>

\* fetch_articles: the SerpAPI request answers with the records raw
FetchSerp ==
    /\ pc = "fetch" /\ InLoop
    /\ \E raw \in BSeq(Pool, MaxArticles - fetched) :
          IF raw = <<>> /\ newsapi_key
          THEN /\ pc' = "newsapi"
               /\ UNCHANGED <<results, fetched, articles, qi, scores, filtered,
                              positions, score_calls>>
          ELSE Fetched(raw)
    /\ UNCHANGED <<newsapi_key, simplified, all_results, payload, simplify_calls,
                   align_distinct>>

\* fetch_articles: the NewsAPI fallback answers with the records raw
FetchNews ==
    /\ pc = "newsapi"
    /\ \E raw \in BSeq(Pool, MaxArticles - fetched) : Fetched(raw)
    /\ UNCHANGED <<newsapi_key, simplified, all_results, payload, simplify_calls,
                   align_distinct>>

\* fetch_articles: the NewsAPI fallback raises, into its except branch
FetchNewsFail ==
    /\ pc = "newsapi"
    /\ pc' = "news_except"
    /\ UNCHANGED <<newsapi_key, simplified, qi, results, articles, scores, filtered,
                   positions, all_results, payload, fetched, score_calls,
                   simplify_calls, align_distinct>>

\* fetch_articles: the except branch of the fallback prints; results is still
\* empty and goes on to the deduplication
NewsExcept ==
    /\ pc = "news_except"
    /\ Fetched(<<>>)
    /\ UNCHANGED <<newsapi_key, simplified, all_results, payload, simplify_calls,
                   align_distinct>>

\* fetch_articles: simplify_queries([query]) answers
FaSimplify ==
    /\ pc = "fa_simplify"
    /\ simplify_calls' = simplify_calls + 1
    /\ pc' = "fa_score"
    /\ UNCHANGED <<newsapi_key, simplified, qi, results, articles, scores, filtered,
                   positions, all_results, payload, fetched, score_calls,
                   align_distinct>>

\* fetch_articles: simplify_queries([query]) raises, into the except branch
FaSimplifyMalformed ==
    /\ pc = "fa_simplify"
    /\ simplify_calls' = simplify_calls + 1
    /\ pc' = "fa_except"
    /\ UNCHANGED <<newsapi_key, simplified, qi, results, articles, scores, filtered,
                   positions, all_results, payload, fetched, score_calls,
                   align_distinct>>

\* fetch_articles: batch_score_relevance answers with the list ss
FaScore ==
    /\ pc = "fa_score"
    /\ \E ss \in BSeq(Scores, Len(results)) :
          /\ articles' = InnerFilter(results, ss)
          /\ IF InnerFilter(results, ss) = <<>>
             THEN NextQuery
             ELSE /\ pc' = "score"
                  /\ qi' = qi
                  /\ score_calls' = score_calls + 1
    /\ results' = <<>>
    /\ scores' = <<>>
    /\ filtered' = <<>>
    /\ positions' = <<>>
    /\ UNCHANGED <<newsapi_key, simplified, all_results, payload, fetched,
                   simplify_calls, align_distinct>>

\* fetch_articles: batch_score_relevance raises, into the except branch
FaScoreMalformed ==
    /\ pc = "fa_score"
    /\ score_calls' = score_calls + 1
    /\ pc' = "fa_except"
    /\ UNCHANGED <<newsapi_key, simplified, qi, results, articles, scores, filtered,
                   positions, all_results, payload, fetched, simplify_calls,
                   align_distinct>>

\* fetch_articles: the except branch prints the error and the unfiltered
\* results are returned
FaExcept ==
    /\ pc = "fa_except"
    /\ Return(results)
    /\ UNCHANGED <<newsapi_key, simplified, all_results, payload, fetched,
                   simplify_calls, align_distinct>>

\* handler step 4: batch_score_relevance answers with the list ss; filter
Score ==
    /\ pc = "score"
    /\ \E ss \in BSeq(Scores, Len(articles)) :
          /\ scores' = ss
          /\ filtered' = Filter(articles, ss, simplified[qi])
          /\ articles' = TagLoop(articles, ss, simplified[qi])
    /\ IF filtered' = <<>>
       THEN NextQuery
       ELSE /\ pc' = "align"
            /\ qi' = qi
            /\ score_calls' = score_calls + 1
    /\ UNCHANGED <<newsapi_key, simplified, results, positions, all_results, payload,
                   fetched, simplify_calls, align_distinct>>

\* handler step 4: batch_score_relevance raises
ScoreMalformed ==
    /\ pc = "score"
    /\ score_calls' = score_calls + 1
    /\ Abort
    /\ UNCHANGED <<newsapi_key, simplified, qi, results, articles, scores, filtered,
                   positions, all_results, fetched, simplify_calls, align_distinct>>

Distinct(ps) == \A i, j \in 1..Len(ps) : i # j => ps[i] # ps[j]

\* handler step 4: get_best_sentence_indices answers with the list ps
Align ==
    /\ pc = "align"
    /\ \E ps \in BSeq(1..MaxPos, Len(filtered)) :
          /\ positions' = ps
          /\ all_results' = all_results \o Position(filtered, ps, qi)
          /\ align_distinct' = (align_distinct /\ Distinct(ps))
    /\ NextQuery
    /\ UNCHANGED <<newsapi_key, simplified, results, articles, scores, filtered,
                   payload, fetched, simplify_calls>>

\* handler step 4: get_best_sentence_indices raises (json.loads)
AlignMalformed ==
    /\ pc = "align"
    /\ Abort
    /\ UNCHANGED <<newsapi_key, simplified, qi, results, articles, scores, filtered,
                   positions, all_results, fetched, score_calls, simplify_calls,
                   align_distinct>>

\* handler steps 5 and 6: deduplicate across the queries, answer at once when
\* nothing is left.  The locals of the loop are dead from here on and are
\* shown empty.
Reconcile ==
    /\ pc = "fetch" /\ qi > Len(simplified)
    /\ all_results' = deduplicate_articles(all_results)
    /\ IF all_results' = <<>>
       THEN /\ payload' = OkPayload(<<>>)
            /\ pc' = "done"
       ELSE /\ pc' = "legal"
            /\ UNCHANGED payload
    /\ articles' = <<>>
    /\ scores' = <<>>
    /\ filtered' = <<>>
    /\ positions' = <<>>
    /\ UNCHANGED <<newsapi_key, simplified, qi, results, fetched, score_calls,
                   simplify_calls, align_distinct>>

\* the record of rs that is the record r with the fields added to it since
Same(r, rs) ==
    CHOOSE x \in {rs[k] : k \in 1..Len(rs)} : \A f \in DOMAIN r : x[f] = r[f]

\* handler steps 7 to 10: estimate_legal_use answers with the list legal.  The
\* dicts of all_results are the dicts of sorted_results, so they carry legal_use
\* and result_number too.
Legal ==
    /\ pc = "legal"
    /\ \E legal \in BSeq(Labels, Len(all_results)) :
          /\ payload' = OkPayload(Rank(all_results, legal))
          /\ all_results' =
                [i \in 1..Len(all_results) |-> Same(all_results[i], payload'.results)]
    /\ pc' = "done"
    /\ UNCHANGED <<newsapi_key, simplified, qi, results, articles, scores, filtered,
                   positions, fetched, score_calls, simplify_calls,
                   align_distinct>>

\* handler step 7: estimate_legal_use raises
LegalMalformed ==
    /\ pc = "legal"
    /\ Abort
    /\ UNCHANGED <<newsapi_key, simplified, qi, results, articles, scores, filtered,
                   positions, all_results, fetched, score_calls, simplify_calls,
                   align_distinct>>

Next ==
    \/ RejectEmpty \/ Extract \/ ExtractMalformed
    \/ Simplify \/ SimplifyMalformed
    \/ FetchSerpFail \/ SerpExcept \/ FetchSerp \/ FetchNews \/ FetchNewsFail \/ NewsExcept
    \/ FaSimplify \/ FaSimplifyMalformed \/ FaScore \/ FaScoreMalformed \/ FaExcept
    \/ Score \/ ScoreMalformed
    \/ Align \/ AlignMalformed
    \/ Reconcile
    \/ Legal \/ LegalMalformed

Spec == Init /\ [][Next]_vars

(***************************************************************************)
(* deduplicate_articles on its own: every sequence of up to MaxLen records *)
(* (as fetch_articles builds them, and as the handler merges them) is      *)
(* deduplicated, and the outcome is deduplicated again.                    *)
(***************************************************************************)
MaxLen == 3

DedupInputs == Pool \cup {Merged(Tag(p, Threshold, <<"a">>), 1, 1) : p \in Pool}

InitDedup ==
    /\ pc = "dedup"
    /\ newsapi_key = FALSE
    /\ simplified = <<>>
    /\ qi = 0
    /\ results = <<>>
    /\ articles \in BSeq(DedupInputs, MaxLen)
    /\ scores = <<>>
    /\ filtered = <<>>
    /\ positions = <<>>
    /\ all_results = <<>>
    /\ payload = NoPayload
    /\ fetched = 0
    /\ score_calls = 0
    /\ simplify_calls = 0
    /\ align_distinct = TRUE

DedupOnce ==
    /\ pc = "dedup"
    /\ results' = deduplicate_articles(articles)
    /\ pc' = "dedup_once"
    /\ UNCHANGED <<newsapi_key, simplified, qi, articles, scores, filtered, positions,
                   all_results, payload, fetched, score_calls, simplify_calls,
                   align_distinct>>

DedupTwice ==
    /\ pc = "dedup_once"
    /\ all_results' = deduplicate_articles(results)
    /\ pc' = "dedup_twice"
    /\ UNCHANGED <<newsapi_key, simplified, qi, results, articles, scores, filtered,
                   positions, payload, fetched, score_calls, simplify_calls,
                   align_distinct>>

NextDedup == DedupOnce \/ DedupTwice

SpecDedup == InitDedup /\ [][NextDedup]_vars

(***************************************************************************)
(* Properties.                                                             *)
(***************************************************************************)
Range(f) == {f[i] : i \in DOMAIN f}

\* C1: when Relevance Scoring returns fewer scores than the articles submitted
\* to it, the relevance-filter stage of the handler fails: the handler never
\* goes on to the alignment with a score list shorter than the batch.
C1_FewerScoresFail == Len(scores) < Len(articles) => pc # "align"

\* C2: deduplicate_articles is idempotent: deduplicating the outcome again
\* gives the same sequence, same records in the same order.
C2_Idempotent == pc = "dedup_twice" => all_results = results

C2_Witness ==
    /\ pc = "dedup_twice"
    /\ Len(results) >= 2
    /\ Len(results) < Len(articles)

RawOf(r) == [title |-> r.title, desc |-> r.desc, url |-> r.url, date |-> r.date]

C3_Step ==
    (pc = "score" /\ pc' # "error") =>
        /\ \A i \in 1..Len(articles) :
              (i <= Len(scores') /\ scores'[i] >= 80)
                  <=> (\E k \in 1..Len(filtered') : RawOf(filtered'[k]) = articles[i])
        /\ \A i \in 1..Len(articles), k \in 1..Len(filtered') :
              RawOf(filtered'[k]) = articles[i] =>
                  /\ filtered'[k].relevance_score = scores'[i]
                  /\ filtered'[k].query = simplified[qi]

C3_Final == \A k \in 1..Len(payload.results) : payload.results[k].relevance_score >= 80

\* C3: an article submitted to Relevance Scoring by the handler is carried
\* forward, tagged with its score and its query, if and only if its score is
\* >= 80 (80 is kept, 79 is dropped), and every entry of the final results has
\* relevance_score >= 80.
C3_ThresholdFilter == [](C3_Final) /\ [][C3_Step]_vars

C3_Witness ==
    /\ pc = "align"
    /\ Len(articles) = 2
    /\ Range(scores) = {79, 80}
    /\ Len(filtered) = 1

C4_KeyLess(x, y) ==
    \/ x.script_position < y.script_position
    \/ x.script_position = y.script_position /\ StrLess(x.date, y.date)

\* C4: in the returned results result_number is 1..N in list order, the list
\* ascends by (script_position, date), and results of equal key keep the order
\* they had in the reconciled list.
C4_Ranked ==
    (pc = "done" /\ payload.status = "ok") =>
        LET r == payload.results
            N == Len(r)
        IN  /\ N = Len(all_results)
            /\ Range(all_results) = Range(r)
            /\ \A i \in 1..N : r[i].result_number = i
            /\ \A i, j \in 1..N : i < j => ~C4_KeyLess(r[j], r[i])
            /\ \A i, j \in 1..N :
                  (/\ i < j
                   /\ ~C4_KeyLess(all_results[i], all_results[j])
                   /\ ~C4_KeyLess(all_results[j], all_results[i]))
                      => all_results[i].result_number < all_results[j].result_number

C4_Witness ==
    /\ pc = "done"
    /\ payload.status = "ok"
    /\ Len(payload.results) = 2
    /\ payload.results[1].batch > payload.results[2].batch

\* C5: a malformed Relevance Scoring or Query Simplification response, the
\* calls inside fetch_articles included, is never swallowed: from the except
\* branch that caught it the invocation ends in an error.
C5_MalformedAborts == [][pc = "fa_except" => pc' = "error"]_vars

C6_Absorbed ==
    /\ articles' = <<>>
    /\ all_results' = all_results
    /\ payload' = payload
    /\ pc' = "fetch"
    /\ qi' = qi + 1

C6_Step ==
    /\ pc \in {"serp_except", "news_except"} => C6_Absorbed
    /\ (pc = "fetch" /\ qi > Len(simplified) /\ all_results = <<>>) =>
          /\ pc' = "done"
          /\ payload'.status = "ok"
          /\ payload'.has_results
          /\ payload'.results = <<>>

\* C6: a failed article-source call makes its query variant contribute no
\* article and the loop goes on with the next variant; and when the loop ends
\* with no article at all the handler answers a normal payload whose results
\* are present and empty.
C6_FetchFailureAbsorbed == [][C6_Step]_vars

C6_Witness ==
    /\ pc = "serp_except"
    /\ qi < Len(simplified)

\* the keys the Deduplicator derives from a merged record's title, description
\* and url
C7_Keys(r) == KeyVariants([title |-> r.title, desc |-> r.description, url |-> r.url])

C7_Apart(x, y) ==
    /\ norm(x.title) = norm(y.title)
    /\ normalize_url(x.url) # normalize_url(y.url)
    /\ norm(x.description) # <<>>
    /\ norm(y.description) # <<>>
    /\ norm(x.description) # norm(y.description)
    /\ C7_Keys(x) \cap C7_Keys(y) = {}

\* C7: the cross-query pass collapses two merged records only when they match
\* on (title+url), (title+description) or the hash of (title+description): two
\* merged records of the same normalised title, different normalised urls and
\* different non-empty descriptions both survive it.
C7_BothSurvive ==
    [][(/\ pc = "fetch"
        /\ qi > Len(simplified)
        /\ Len(all_results) = 2
        /\ C7_Apart(all_results[1], all_results[2]))
          => all_results' = all_results]_vars

C8_NoText(x) == norm(GetField(x, "title")) = <<>> /\ norm(GetField(x, "desc")) = <<>>

\* C8: two records without usable text (normalised title and description both
\* empty) whose normalised urls differ are both in the output of
\* deduplicate_articles.
C8_NoTextKept ==
    pc = "dedup_once" =>
        \A i, j \in 1..Len(articles) :
            (/\ i < j
             /\ C8_NoText(articles[i])
             /\ C8_NoText(articles[j])
             /\ normalize_url(articles[i].url) # normalize_url(articles[j].url))
                => {articles[i], articles[j]} \subseteq Range(results)

\* C9 as stated: Sentence Alignment answering pairwise distinct indices within
\* each batch, no two entries of the results have the same script_position.
C9_UniquePositions ==
    (pc = "done" /\ align_distinct) =>
        \A i, j \in 1..Len(payload.results) :
            i # j => payload.results[i].script_position # payload.results[j].script_position

C9_DistinctInBatch(rs) ==
    \A i, j \in 1..Len(rs) :
        (i # j /\ rs[i].batch = rs[j].batch) => rs[i].script_position # rs[j].script_position

\* C9 as amended: Sentence Alignment answering pairwise distinct indices within
\* each batch, no two entries that were aligned in the same batch (the same
\* iteration of the loop over the query variants) have the same
\* script_position, in all_results and in the results returned.
C9_UniqueWithinBatch ==
    align_distinct => C9_DistinctInBatch(all_results) /\ C9_DistinctInBatch(payload.results)

C9_Witness ==
    /\ pc = "done"
    /\ align_distinct
    /\ Len(payload.results) = 2
    /\ payload.results[1].batch = payload.results[2].batch

\* C10: in one invocation Relevance Scoring is called at most once on the batch
\* of a query variant, and Query Simplification is not called again after the
\* initial simplification.
C10_OncePerVariant == score_calls <= 1 /\ simplify_calls <= 1

====
